---- MODULE Spec2Model ----
(***************************************************************************)
(* Page replacement simulator (main.py): simulate_fifo, simulate_lru and   *)
(* simulate_optimal, each a loop over the reference string that keeps a    *)
(* list of frames, records one StepResult per reference and returns an     *)
(* AlgorithmResult.  One call is one behaviour: Init is the state on entry *)
(* to the loop, one action is one loop iteration, Return is the return     *)
(* statement.  Python exceptions end the call with pc = "raised".          *)
(***************************************************************************)
EXTENDS Integers, Sequences, FiniteSets

\* ---- bounds of the model ----
NumPages == 3
MaxLen == 5
NegCaps == 1
MaxCap == 3

Pages == 0 .. (NumPages - 1)
Algorithms == {"FIFO", "LRU", "Optimal"}

\* the frame counts a call is made with: NegCaps negative ones, 0, 1 .. MaxCap
Capacities == (0 - NegCaps) .. MaxCap

RECURSIVE SeqsUpTo(_)
SeqsUpTo(n) ==
  IF n = 0 THEN {<<>>}
  ELSE LET shorter == SeqsUpTo(n - 1)
       IN shorter \cup {Append(s, p) : s \in {t \in shorter : Len(t) = n - 1}, p \in Pages}

References == SeqsUpTo(MaxLen)

VARIABLES alg, reference, frames_count, pc, i,
          frames, order, last_used, steps, faults, exc, result,
          table, summary

vars == <<alg, reference, frames_count, pc, i,
          frames, order, last_used, steps, faults, exc, result,
          table, summary>>

\* ---- Python list / dict primitives used by the code ----

\* the set of elements of a list
Range(s) == {s[k] : k \in 1 .. Len(s)}

\* `page in frames`
page_in_last(page, frs) == Len(frs) > 0 /\ frs[Len(frs)] = page
page_in(page, frs) == \E k \in 1 .. Len(frs) : frs[k] = page

\* `len(frames) < frames_count`
has_room_le(frs, cap) == Len(frs) <= cap
has_room_short(frs, cap) == Len(frs) < cap - 1
has_room(frs, cap) == Len(frs) < cap

\* list.index(v): 0-based position of the first occurrence, -1 for ValueError
list_index(lst, v) ==
  IF \E k \in 1 .. Len(lst) : lst[k] = v
  THEN (CHOOSE k \in 1 .. Len(lst) :
          lst[k] = v /\ \A j \in 1 .. (k - 1) : lst[j] # v) - 1
  ELSE -1

\* reference.index(p, start): first 0-based position >= start holding p,
\* -1 for ValueError
reference_index_nostart(ref, p, start) == list_index(ref, p)
reference_index(ref, p, start) ==
  LET hits == {k \in (start + 1) .. Len(ref) : ref[k] = p}
  IN IF hits = {} THEN -1
     ELSE (CHOOSE k \in hits : \A j \in hits : k <= j) - 1

\* frames[victim_index] = page (victim_index is 0-based)
replace_slot_shift(frs, victim_index, page) ==
  Append(SubSeq(frs, 1, victim_index) \o SubSeq(frs, victim_index + 2, Len(frs)), page)
replace_slot(frs, victim_index, page) == [frs EXCEPT ![victim_index + 1] = page]

\* last_used.get(p, 0)
last_used_get(lu, p) == IF p \in DOMAIN lu THEN lu[p] ELSE 0

\* last_used[page] = i
last_used_set(lu, page, step) ==
  [q \in (DOMAIN lu) \cup {page} |-> IF q = page THEN step ELSE lu[q]]

\* StepResult(i, page, frames.copy(), is_hit) appended to steps
StepResult(step, page, frs, is_hit) ==
  [step |-> step, page |-> page, frames |-> frs, is_hit |-> is_hit]

record_step_alias(stps, step, page, frs, is_hit) ==
  Append([k \in 1 .. Len(stps) |-> [stps[k] EXCEPT !.frames = frs]],
         StepResult(step, page, frs, is_hit))
record_step(stps, step, page, frs, is_hit) ==
  Append(stps, StepResult(step, page, frs, is_hit))

\* AlgorithmResult(name=name, steps=steps, total_faults=faults)
AlgorithmResult_hits(name, stps, flts) ==
  [name |-> name, steps |-> stps, total_faults |-> Len(stps) - flts]
AlgorithmResult(name, stps, flts) ==
  [name |-> name, steps |-> stps, total_faults |-> flts]

total_accesses(res) == Len(res.steps)
total_hits(res) == total_accesses(res) - res.total_faults

NoResult == [name |-> "None"]

\* ---- victim selection ----

\* order.pop(0): the popped value
fifo_victim_newest(ord) == ord[Len(ord)]
fifo_victim(ord) == Head(ord)

\* min(frames, key=lambda p: last_used.get(p, 0)): first minimal element
lru_page_max(frs, lu) ==
  LET k == CHOOSE k \in 1 .. Len(frs) :
             /\ \A j \in 1 .. Len(frs) : last_used_get(lu, frs[k]) >= last_used_get(lu, frs[j])
             /\ \A j \in 1 .. (k - 1) : last_used_get(lu, frs[j]) # last_used_get(lu, frs[k])
  IN frs[k]
lru_page(frs, lu) ==
  LET k == CHOOSE k \in 1 .. Len(frs) :
             /\ \A j \in 1 .. Len(frs) : last_used_get(lu, frs[k]) <= last_used_get(lu, frs[j])
             /\ \A j \in 1 .. (k - 1) : last_used_get(lu, frs[j]) # last_used_get(lu, frs[k])
  IN frs[k]

\* math.inf, compared with no index after it is assigned
Inf == 1000000

\* the scan `for idx, p in enumerate(frames)` of simulate_optimal, from slot
\* idx (0-based) on, with the running farthest_use and victim_index
RECURSIVE optimal_scan(_, _, _, _, _)
optimal_scan(frs, ref, current_index, idx, acc) ==
  IF idx >= Len(frs) THEN acc
  ELSE LET p == frs[idx + 1]
           next_use == reference_index(ref, p, current_index + 1)
       IN IF next_use = -1
          THEN [farthest_use |-> Inf, victim_index |-> idx]
          ELSE IF next_use > acc.farthest_use
               THEN optimal_scan(frs, ref, current_index, idx + 1,
                                 [farthest_use |-> next_use, victim_index |-> idx])
               ELSE optimal_scan(frs, ref, current_index, idx + 1, acc)

\* victim_index after the scan, with the `if victim_index == -1` fallback
optimal_victim_index(frs, ref, current_index) ==
  LET acc == optimal_scan(frs, ref, current_index, 0,
                          [farthest_use |-> -1, victim_index |-> -1])
  IN IF acc.victim_index = -1 THEN 0 ELSE acc.victim_index

\* ---- one loop iteration of each algorithm, on the locals of the call ----

Locals ==
  [frames |-> frames, order |-> order, last_used |-> last_used,
   steps |-> steps, faults |-> faults, exc |-> exc]

fifo_iter_noappend(s, step, page, cap) ==
  IF page_in(page, s.frames)
  THEN [s EXCEPT !.steps = record_step(s.steps, step, page, s.frames, TRUE)]
  ELSE IF has_room(s.frames, cap)
  THEN LET fr == Append(s.frames, page)
       IN [s EXCEPT !.faults = s.faults + 1, !.frames = fr,
                    !.order = Append(s.order, page),
                    !.steps = record_step(s.steps, step, page, fr, FALSE)]
  ELSE IF s.order = <<>>
  THEN [s EXCEPT !.faults = s.faults + 1, !.exc = "IndexError"]
  ELSE LET victim == fifo_victim(s.order)
           rest == Tail(s.order)
           victim_index == list_index(s.frames, victim)
       IN IF victim_index = -1
          THEN [s EXCEPT !.faults = s.faults + 1, !.order = rest,
                         !.exc = "ValueError"]
          ELSE LET fr == replace_slot(s.frames, victim_index, page)
               IN [s EXCEPT !.faults = s.faults + 1, !.frames = fr,
                            !.order = rest,
                            !.steps = record_step(s.steps, step, page, fr, FALSE)]

fifo_iter(s, step, page, cap) ==
  IF page_in(page, s.frames)
  THEN [s EXCEPT !.steps = record_step(s.steps, step, page, s.frames, TRUE)]
  ELSE IF has_room(s.frames, cap)
  THEN LET fr == Append(s.frames, page)
       IN [s EXCEPT !.faults = s.faults + 1, !.frames = fr,
                    !.order = Append(s.order, page),
                    !.steps = record_step(s.steps, step, page, fr, FALSE)]
  ELSE IF s.order = <<>>
  THEN [s EXCEPT !.faults = s.faults + 1, !.exc = "IndexError"]
  ELSE LET victim == fifo_victim(s.order)
           rest == Tail(s.order)
           victim_index == list_index(s.frames, victim)
       IN IF victim_index = -1
          THEN [s EXCEPT !.faults = s.faults + 1, !.order = rest,
                         !.exc = "ValueError"]
          ELSE LET fr == replace_slot(s.frames, victim_index, page)
               IN [s EXCEPT !.faults = s.faults + 1, !.frames = fr,
                            !.order = Append(rest, page),
                            !.steps = record_step(s.steps, step, page, fr, FALSE)]

lru_iter_move(s, step, page, cap) ==
  IF page_in(page, s.frames)
  THEN LET fr == replace_slot_shift(s.frames, list_index(s.frames, page), page)
       IN [s EXCEPT !.frames = fr,
                    !.last_used = last_used_set(s.last_used, page, step),
                    !.steps = record_step(s.steps, step, page, fr, TRUE)]
  ELSE IF has_room(s.frames, cap)
  THEN LET fr == Append(s.frames, page)
       IN [s EXCEPT !.faults = s.faults + 1, !.frames = fr,
                    !.last_used = last_used_set(s.last_used, page, step),
                    !.steps = record_step(s.steps, step, page, fr, FALSE)]
  ELSE IF s.frames = <<>>
  THEN [s EXCEPT !.faults = s.faults + 1, !.exc = "ValueError"]
  ELSE LET victim_index == list_index(s.frames, lru_page(s.frames, s.last_used))
           fr == replace_slot(s.frames, victim_index, page)
       IN [s EXCEPT !.faults = s.faults + 1, !.frames = fr,
                    !.last_used = last_used_set(s.last_used, page, step),
                    !.steps = record_step(s.steps, step, page, fr, FALSE)]
lru_iter(s, step, page, cap) ==
  IF page_in(page, s.frames)
  THEN [s EXCEPT !.last_used = last_used_set(s.last_used, page, step),
                 !.steps = record_step(s.steps, step, page, s.frames, TRUE)]
  ELSE IF has_room(s.frames, cap)
  THEN LET fr == Append(s.frames, page)
       IN [s EXCEPT !.faults = s.faults + 1, !.frames = fr,
                    !.last_used = last_used_set(s.last_used, page, step),
                    !.steps = record_step(s.steps, step, page, fr, FALSE)]
  ELSE IF s.frames = <<>>
  THEN [s EXCEPT !.faults = s.faults + 1, !.exc = "ValueError"]
  ELSE LET victim_index == list_index(s.frames, lru_page(s.frames, s.last_used))
           fr == replace_slot(s.frames, victim_index, page)
       IN [s EXCEPT !.faults = s.faults + 1, !.frames = fr,
                    !.last_used = last_used_set(s.last_used, page, step),
                    !.steps = record_step(s.steps, step, page, fr, FALSE)]

optimal_iter(s, step, page, cap, ref) ==
  IF page_in(page, s.frames)
  THEN [s EXCEPT !.steps = record_step(s.steps, step, page, s.frames, TRUE)]
  ELSE IF has_room(s.frames, cap)
  THEN LET fr == Append(s.frames, page)
       IN [s EXCEPT !.faults = s.faults + 1, !.frames = fr,
                    !.steps = record_step(s.steps, step, page, fr, FALSE)]
  ELSE LET victim_index == optimal_victim_index(s.frames, ref, step - 1)
       IN IF victim_index >= Len(s.frames)
          THEN [s EXCEPT !.faults = s.faults + 1, !.exc = "IndexError"]
          ELSE LET fr == replace_slot(s.frames, victim_index, page)
               IN [s EXCEPT !.faults = s.faults + 1, !.frames = fr,
                            !.steps = record_step(s.steps, step, page, fr, FALSE)]

\* ---- a whole call, as a function of its arguments ----

\* the locals on entry to the loop
InitLocals ==
  [frames |-> <<>>, order |-> <<>>, last_used |-> <<>>,
   steps |-> <<>>, faults |-> 0, exc |-> "none"]

\* the locals after the first k iterations of the loop of algorithm a
\* (an exception ends the loop)
RECURSIVE run_loop(_, _, _, _)
run_loop(a, ref, cap, k) ==
  IF k = 0 THEN InitLocals
  ELSE LET s == run_loop(a, ref, cap, k - 1)
       IN IF s.exc # "none" THEN s
          ELSE IF a = "FIFO" THEN fifo_iter(s, k, ref[k], cap)
          ELSE IF a = "LRU" THEN lru_iter(s, k, ref[k], cap)
          ELSE optimal_iter(s, k, ref[k], cap, ref)

\* the value a call returns, or the exception it raises
call_outcome(a, ref, cap) ==
  LET s == run_loop(a, ref, cap, Len(ref))
  IN IF s.exc = "none" THEN AlgorithmResult(a, s.steps, s.faults)
     ELSE [name |-> "None", exc |-> s.exc]

simulate_fifo(ref, cap) == call_outcome("FIFO", ref, cap)
simulate_lru(ref, cap) == call_outcome("LRU", ref, cap)
simulate_optimal(ref, cap) == call_outcome("Optimal", ref, cap)

\* ---- derived metrics and reporting ----

\* a float quotient, kept as numerator and denominator; 0.0 is Ratio(0, 1)
Ratio(num, den) == [num |-> num, den |-> den]

\* AlgorithmResult.hit_ratio
hit_ratio_unguarded(res) ==
  IF total_accesses(res) = 0 THEN [error |-> "ZeroDivisionError"]
  ELSE Ratio(total_hits(res), total_accesses(res))
hit_ratio(res) ==
  IF total_accesses(res) = 0 THEN Ratio(0, 1)
  ELSE Ratio(total_hits(res), total_accesses(res))

\* str(n) for an int, as a sequence of characters
Digits == <<"0", "1", "2", "3", "4", "5", "6", "7", "8", "9">>

RECURSIVE nat_str(_)
nat_str(n) ==
  IF n < 10 THEN <<Digits[n + 1]>>
  ELSE nat_str(n \div 10) \o <<Digits[(n % 10) + 1]>>

int_str(n) == IF n < 0 THEN <<"-">> \o nat_str(0 - n) ELSE nat_str(n)

\* f"{s:>w}" and f"{s:<w}"
RECURSIVE spaces(_)
spaces(n) == IF n <= 0 THEN <<>> ELSE <<" ">> \o spaces(n - 1)

pad_left(str, w) == spaces(w - Len(str)) \o str
pad_right(str, w) == str \o spaces(w - Len(str))

\* " ".join(f"{fs:>2}" for fs in frame_strs)
RECURSIVE join_cells(_)
join_cells(cells) ==
  IF cells = <<>> THEN <<>>
  ELSE IF Len(cells) = 1 THEN pad_left(cells[1], 2)
  ELSE pad_left(cells[1], 2) \o <<" ">> \o join_cells(Tail(cells))

\* max_frames = len(result.steps[0].frames)
max_frames(res) == Len(res.steps[1].frames)

\* the row print_step_table prints for one step, with max_frames columns
table_row(step, mf) ==
  LET frame_strs == [j \in 1 .. mf |->
                       IF j - 1 < Len(step.frames) THEN int_str(step.frames[j])
                       ELSE <<"-">>]
  IN [step |-> pad_left(int_str(step.step), 4),
      page |-> pad_left(int_str(step.page), 4),
      frame_strs |-> frame_strs,
      frame_str |-> pad_right(join_cells(frame_strs), 3 * mf),
      res |-> IF step.is_hit THEN "Hit" ELSE "Fault"]

\* what print_step_table(result) prints
print_step_table(res) ==
  IF res.steps = <<>>
  THEN [message |-> "No steps to show.", header_frames |-> <<>>, rows |-> <<>>]
  ELSE LET mf == max_frames(res)
       IN [message |-> "",
           header_frames |-> [j \in 1 .. mf |-> <<"F">> \o int_str(j)],
           rows |-> [k \in 1 .. Len(res.steps) |-> table_row(res.steps[k], mf)]]

\* the row print_summary prints for one result
print_summary(res) ==
  LET r == hit_ratio(res)
  IN [name |-> res.name, total_faults |-> res.total_faults,
      total_hits |-> total_hits(res),
      hit_ratio_percent |-> IF "error" \in DOMAIN r THEN r
                            ELSE Ratio(r.num * 100, r.den)]

\* ---- the state machine ----

Init_zeroed ==
  /\ alg \in Algorithms
  /\ reference \in References
  /\ frames_count \in Capacities
  /\ pc = "loop"
  /\ i = 0
  /\ frames = [k \in 1 .. frames_count |-> 0]
  /\ order = <<>>
  /\ last_used = <<>>
  /\ steps = <<>>
  /\ faults = 0
  /\ exc = "none"
  /\ result = NoResult
  /\ table = <<>>
  /\ summary = <<>>
Init ==
  /\ alg \in Algorithms
  /\ reference \in References
  /\ frames_count \in Capacities
  /\ pc = "loop"
  /\ i = 0
  /\ frames = <<>>
  /\ order = <<>>
  /\ last_used = <<>>
  /\ steps = <<>>
  /\ faults = 0
  /\ exc = "none"
  /\ result = NoResult
  /\ table = <<>>
  /\ summary = <<>>

Commit(s) ==
  /\ frames' = s.frames
  /\ order' = s.order
  /\ last_used' = s.last_used
  /\ steps' = s.steps
  /\ faults' = s.faults
  /\ exc' = s.exc
  /\ pc' = IF s.exc = "none" THEN "loop" ELSE "raised"
  /\ i' = i + 1
  /\ UNCHANGED <<alg, reference, frames_count, result, table, summary>>

FifoIter ==
  /\ alg = "FIFO"
  /\ pc = "loop"
  /\ i < Len(reference)
  /\ Commit(fifo_iter(Locals, i + 1, reference[i + 1], frames_count))

LruIter ==
  /\ alg = "LRU"
  /\ pc = "loop"
  /\ i < Len(reference)
  /\ Commit(lru_iter(Locals, i + 1, reference[i + 1], frames_count))

OptimalIter ==
  /\ alg = "Optimal"
  /\ pc = "loop"
  /\ i < Len(reference)
  /\ Commit(optimal_iter(Locals, i + 1, reference[i + 1], frames_count, reference))

Return ==
  /\ pc = "loop"
  /\ i = Len(reference)
  /\ pc' = "returned"
  /\ result' = AlgorithmResult(alg, steps, faults)
  /\ UNCHANGED <<alg, reference, frames_count, i, frames, order, last_used,
                 steps, faults, exc, table, summary>>

\* main: print_step_table(res) after the call returned
PrintStepTable ==
  /\ pc = "returned"
  /\ table' = print_step_table(result)
  /\ pc' = "tabled"
  /\ UNCHANGED <<alg, reference, frames_count, i, frames, order, last_used,
                 steps, faults, exc, result, summary>>

\* main: print_summary([res]) after the step table
PrintSummary ==
  /\ pc = "tabled"
  /\ summary' = print_summary(result)
  /\ pc' = "done"
  /\ UNCHANGED <<alg, reference, frames_count, i, frames, order, last_used,
                 steps, faults, exc, result, table>>

Next ==
  FifoIter \/ LruIter \/ OptimalIter \/ Return \/ PrintStepTable \/ PrintSummary

Spec == Init /\ [][Next]_vars

\* ---- the two fixed reference strings ----

\* the sample reference string of get_reference_string_from_user
SampleReference == <<7, 0, 1, 2, 0, 3, 0, 4, 2, 3, 0, 3, 2>>

\* the textbook reference string of the FIFO anomaly
BeladyReference == <<1, 2, 3, 4, 1, 2, 5, 1, 2, 3, 4, 5>>

ScenarioReferences == {SampleReference, BeladyReference}

ScenarioCapacities == 1 .. (MaxCap + 1)

InitScenario ==
  /\ alg \in Algorithms
  /\ reference \in ScenarioReferences
  /\ frames_count \in ScenarioCapacities
  /\ pc = "loop"
  /\ i = 0
  /\ frames = <<>>
  /\ order = <<>>
  /\ last_used = <<>>
  /\ steps = <<>>
  /\ faults = 0
  /\ exc = "none"
  /\ result = NoResult
  /\ table = <<>>
  /\ summary = <<>>

SpecScenario == InitScenario /\ [][Next]_vars

TypeOK ==
  /\ alg \in Algorithms
  /\ reference \in References
  /\ frames_count \in Capacities
  /\ pc \in {"loop", "returned", "raised", "tabled", "done"}
  /\ i \in 0 .. Len(reference)
  /\ exc \in {"none", "IndexError", "ValueError"}

\* ---- vocabulary of the properties ----

\* the frame contents before step k was processed
PrevFrames(k) == IF k = 1 THEN <<>> ELSE steps[k - 1].frames

NoDuplicates(s) == \A a, b \in 1 .. Len(s) : s[a] = s[b] => a = b

Max0(S) == IF S = {} THEN 0 ELSE CHOOSE m \in S : \A x \in S : x <= m
Min0(S) == IF S = {} THEN 0 ELSE CHOOSE m \in S : \A x \in S : m <= x

\* the step at which resident page p entered the frame set for the last time
InsertedAt(p) ==
  Max0({k \in 1 .. Len(steps) :
          p \in Range(steps[k].frames) /\ p \notin Range(PrevFrames(k))})

\* the last step, among those processed, that referenced page p
LastRef(p) == Max0({k \in 1 .. i : reference[k] = p})

\* the positions, strictly after the step being processed (i + 1), where p occurs
NextOcc(p) == {k \in (i + 2) .. Len(reference) : reference[k] = p}

\* the next iteration is a fault of algorithm a that finds the frame set full
FullFault(a) ==
  /\ alg = a
  /\ frames_count >= 1
  /\ pc = "loop"
  /\ i < Len(reference)
  /\ reference[i + 1] \notin Range(frames)
  /\ Len(frames) >= frames_count

\* the iteration replaced slot idx (1-based) by the referenced page
Evicts(idx) ==
  /\ pc' = "loop"
  /\ idx \in 1 .. Len(frames)
  /\ frames' = [frames EXCEPT ![idx] = reference[i + 1]]

\* step k of the recorded trace was a fault on a full frame set
WasEviction(k) ==
  /\ k \in 1 .. Len(steps)
  /\ ~steps[k].is_hit
  /\ Len(PrevFrames(k)) >= frames_count

\* the page that left the frame set at step k
Evicted(k) == Range(PrevFrames(k)) \ Range(steps[k].frames)

\* ---- C1 ----
\* C1: in simulate_fifo, a fault on a full frame set evicts the resident page
\* that entered the frame set earliest, whatever hits it received since.
C1_FifoVictimStep ==
  FullFault("FIFO") =>
    \E idx \in 1 .. Len(frames) :
      /\ \A j \in 1 .. Len(frames) : InsertedAt(frames[idx]) <= InsertedAt(frames[j])
      /\ Evicts(idx)

C1_FifoVictim == [][C1_FifoVictimStep]_vars

\* a FIFO eviction whose victim was hit after it was inserted
C1_Witness ==
  /\ alg = "FIFO"
  /\ frames_count >= 2
  /\ \E k \in 1 .. Len(steps) :
       /\ WasEviction(k)
       /\ \E h \in 1 .. (k - 1) : steps[h].is_hit /\ steps[h].page \in Evicted(k)

\* ---- C2 ----
\* C2: in simulate_lru, a fault on a full frame set evicts the resident page
\* whose most recent reference is the oldest, the lowest slot among equals.
C2_LruVictimStep ==
  FullFault("LRU") =>
    \E idx \in 1 .. Len(frames) :
      /\ \A j \in 1 .. Len(frames) : LastRef(frames[idx]) <= LastRef(frames[j])
      /\ \A j \in 1 .. (idx - 1) : LastRef(frames[j]) # LastRef(frames[idx])
      /\ Evicts(idx)

C2_LruVictim == [][C2_LruVictimStep]_vars

\* an LRU eviction that spared the page inserted earliest because it was hit
C2_Witness ==
  /\ alg = "LRU"
  /\ frames_count >= 2
  /\ \E k \in 1 .. Len(steps) :
       /\ WasEviction(k)
       /\ \E h \in 1 .. (k - 1) :
            /\ steps[h].is_hit
            /\ steps[h].page = PrevFrames(k)[1]
            /\ steps[h].page \in Range(steps[k].frames)

\* ---- C3 ----
\* C3: in simulate_optimal, a fault on a full frame set evicts the lowest
\* slot whose page never occurs again, if there is one, and otherwise the
\* page whose next occurrence is furthest away (lowest slot among equals).
C3_OptimalVictimStep ==
  FullFault("Optimal") =>
    LET dead == {idx \in 1 .. Len(frames) : NextOcc(frames[idx]) = {}}
        next(idx) == Min0(NextOcc(frames[idx]))
    IN IF dead # {}
       THEN Evicts(Min0(dead))
       ELSE \E idx \in 1 .. Len(frames) :
              /\ \A j \in 1 .. Len(frames) : next(j) <= next(idx)
              /\ \A j \in 1 .. (idx - 1) : next(j) # next(idx)
              /\ Evicts(idx)

C3_OptimalVictim == [][C3_OptimalVictimStep]_vars

\* a run of simulate_optimal with an eviction where every resident page had
\* a later occurrence and the victim was not in the first slot, and an
\* eviction where some resident page had none
C3_Witness ==
  /\ alg = "Optimal"
  /\ frames_count >= 2
  /\ \E k \in 1 .. Len(steps) :
       /\ WasEviction(k)
       /\ \A q \in Range(PrevFrames(k)) :
            \E m \in (k + 1) .. Len(reference) : reference[m] = q
       /\ PrevFrames(k)[1] = steps[k].frames[1]
  /\ \E k \in 1 .. Len(steps) :
       /\ WasEviction(k)
       /\ \E q \in Range(PrevFrames(k)) :
            \A m \in (k + 1) .. Len(reference) : reference[m] # q

\* ---- C4 ----
\* C4: a step is recorded as a hit exactly when its page was in the frame
\* set before the step (the previous snapshot, or no page before step 1).
C4_HitIffResident ==
  frames_count >= 1 =>
    \A k \in 1 .. Len(steps) :
      steps[k].is_hit <=> steps[k].page \in Range(PrevFrames(k))

\* a trace with a hit on a page outside the last slot, and a fault
C4_Witness ==
  /\ frames_count >= 2
  /\ \E k \in 1 .. Len(steps) :
       /\ steps[k].is_hit
       /\ steps[k].page # PrevFrames(k)[Len(PrevFrames(k))]
  /\ \E k \in 2 .. Len(steps) : ~steps[k].is_hit

\* ---- C5 ----
\* C5: no snapshot holds a page twice or is longer than the frame capacity.
C5_SnapshotBounded ==
  frames_count >= 1 =>
    \A k \in 1 .. Len(steps) :
      /\ NoDuplicates(steps[k].frames)
      /\ Len(steps[k].frames) <= frames_count

\* a full frame set after an eviction
C5_Witness ==
  /\ frames_count >= 1
  /\ \E k \in 1 .. Len(steps) :
       WasEviction(k) /\ Len(steps[k].frames) = frames_count

\* ---- C6 ----
\* C6: a fault appends the page as the new last slot while there is room and
\* otherwise overwrites exactly the victim's slot; every other slot keeps
\* its page, so a page stays in its slot until it is evicted.
C6_SlotStability ==
  frames_count >= 1 =>
    \A k \in 1 .. Len(steps) :
      LET prev == PrevFrames(k)
          snap == steps[k].frames
          page == steps[k].page
      IN /\ (~steps[k].is_hit /\ Len(prev) < frames_count) =>
              snap = Append(prev, page)
         /\ (~steps[k].is_hit /\ Len(prev) >= frames_count) =>
              \E idx \in 1 .. Len(prev) :
                /\ prev[idx] # page
                /\ snap = [prev EXCEPT ![idx] = page]
         /\ \A j \in 1 .. Len(prev) :
              (j <= Len(snap) /\ snap[j] # prev[j]) => Evicted(k) = {prev[j]}

\* a trace with an append and with an eviction from a slot that is not the last
C6_Witness ==
  /\ frames_count >= 2
  /\ \E k \in 1 .. Len(steps) :
       /\ WasEviction(k)
       /\ PrevFrames(k)[frames_count] = steps[k].frames[frames_count]
  /\ \E k \in 1 .. Len(steps) :
       ~steps[k].is_hit /\ Len(PrevFrames(k)) < frames_count

\* ---- C7 ----
\* C7: the snapshot of a hit step is the snapshot of the step before it.
C7_HitKeepsFrames ==
  frames_count >= 1 =>
    \A k \in 1 .. Len(steps) :
      steps[k].is_hit => steps[k].frames = PrevFrames(k)

\* a hit on a page that is not in the last slot
C7_Witness ==
  /\ frames_count >= 2
  /\ \E k \in 1 .. Len(steps) :
       /\ steps[k].is_hit
       /\ Len(PrevFrames(k)) >= 2
       /\ steps[k].page = PrevFrames(k)[1]

\* ---- C8 ----
\* C8: with a frame capacity below 1 the call ends in an InvalidCapacity
\* failure and never returns a result.
C8_InvalidCapacity ==
  frames_count < 1 =>
    /\ pc # "returned"
    /\ result = NoResult
    /\ pc = "raised" => exc = "InvalidCapacity"

\* ---- C9 ----
\* C9: total_faults is the number of steps with is_hit false, so it is at
\* most total_accesses and total_hits is the number of hit steps.
C9_FaultCount ==
  (frames_count >= 1 /\ pc = "returned") =>
    /\ result.total_faults = Cardinality({k \in 1 .. Len(result.steps) : ~result.steps[k].is_hit})
    /\ result.total_faults <= total_accesses(result)
    /\ total_hits(result) = Cardinality({k \in 1 .. Len(result.steps) : result.steps[k].is_hit})

\* a returned result with hits and with more faults than hits
C9_Witness ==
  /\ frames_count >= 1
  /\ pc = "returned"
  /\ total_hits(result) >= 1
  /\ result.total_faults > total_hits(result)

\* ---- C10 ----
\* C10: with a capacity of at least 1 the call never fails and is never
\* stuck before it returns; each iteration advances the loop by one
\* reference and appends one step carrying the next index, the referenced
\* page and the frame contents just produced, leaving the earlier steps as
\* they were; after the last reference the call returns the steps, one per
\* reference, in input order.
C10_TraceStep ==
  frames_count >= 1 =>
    /\ pc' # "raised"
    /\ (pc = "loop" /\ i < Len(reference)) =>
         /\ i' = i + 1
         /\ Len(steps') = Len(steps) + 1
         /\ SubSeq(steps', 1, Len(steps)) = steps
         /\ steps'[Len(steps')].step = i + 1
         /\ steps'[Len(steps')].page = reference[i + 1]
         /\ steps'[Len(steps')].frames = frames'
    /\ (pc = "loop" /\ i = Len(reference)) =>
         /\ pc' = "returned"
         /\ result'.steps = steps
         /\ Len(result'.steps) = Len(reference)
         /\ \A k \in 1 .. Len(reference) :
              result'.steps[k].step = k /\ result'.steps[k].page = reference[k]

C10_Progress ==
  (frames_count >= 1 /\ pc = "loop") => (i <= Len(reference) /\ ENABLED Next)

C10_TraceShape == [][C10_TraceStep]_vars /\ []C10_Progress

\* a returned trace of full length whose snapshots are not all the same
C10_Witness ==
  /\ frames_count >= 1
  /\ pc = "returned"
  /\ Len(result.steps) = MaxLen
  /\ \E k \in 2 .. Len(result.steps) :
       result.steps[k].frames # result.steps[k - 1].frames

\* the call has returned (and its result may have been printed)
Returned == pc \in {"returned", "tabled", "done"}

\* ---- C11 ----
\* C11: with a capacity of at least 1, a call on the empty reference string
\* does not fail and returns a result with no steps, total_faults = 0 and
\* hit_ratio = 0.0 (which is also what the summary prints).
C11_EmptySequence ==
  (frames_count >= 1 /\ reference = <<>>) =>
    /\ pc # "raised"
    /\ Returned =>
         /\ result.steps = <<>>
         /\ result.total_faults = 0
         /\ hit_ratio(result) = Ratio(0, 1)
    /\ pc = "done" => summary.hit_ratio_percent = Ratio(0, 1)

\* a call on the empty reference string has returned and was summarised
C11_Witness ==
  /\ frames_count >= 1
  /\ reference = <<>>
  /\ pc = "done"
  /\ result.steps = <<>>

\* ---- C12 ----
\* C12 (as stated): simulate_fifo on the sample reference string with 3
\* frames returns total_faults = 9.
C12_SampleFaults9 ==
  (alg = "FIFO" /\ reference = SampleReference /\ frames_count = 3 /\ Returned) =>
    result.total_faults = 9

\* C12 (amended): simulate_fifo on the sample reference string with 3 frames
\* returns total_faults = 10, the hits being steps 5, 12 and 13.
C12_SampleFaults10 ==
  (alg = "FIFO" /\ reference = SampleReference /\ frames_count = 3 /\ Returned) =>
    /\ result.total_faults = 10
    /\ {k \in 1 .. Len(result.steps) : result.steps[k].is_hit} = {5, 12, 13}

\* the FIFO call on the sample reference string with 3 frames has returned
C12_Witness ==
  /\ alg = "FIFO"
  /\ reference = SampleReference
  /\ frames_count = 3
  /\ pc = "returned"
  /\ Len(result.steps) = 13

\* ---- C13 ----
\* C13: simulate_fifo on the textbook anomaly string returns total_faults = 9
\* with 3 frames and total_faults = 10 with 4 frames.
C13_BeladyFaults ==
  (alg = "FIFO" /\ reference = BeladyReference /\ Returned) =>
    /\ frames_count = 3 => result.total_faults = 9
    /\ frames_count = 4 => result.total_faults = 10

\* the FIFO call on the anomaly string with 4 frames has returned
C13_Witness ==
  /\ alg = "FIFO"
  /\ reference = BeladyReference
  /\ frames_count = 4
  /\ pc = "returned"
  /\ Len(result.steps) = 12

\* the steps of a result that are hits
HitSteps(res) == {k \in 1 .. Len(res.steps) : res.steps[k].is_hit}

\* ---- C14 ----
\* C14: with one frame, simulate_fifo, simulate_lru and simulate_optimal
\* return the same total_faults and the same hit/fault classification of
\* every step, on every reference string.
C14_CapacityOne ==
  (frames_count = 1 /\ Returned) =>
    \A other \in {simulate_fifo(reference, 1), simulate_lru(reference, 1),
                  simulate_optimal(reference, 1)} :
      /\ other.total_faults = result.total_faults
      /\ Len(other.steps) = Len(result.steps)
      /\ HitSteps(other) = HitSteps(result)

\* a call with one frame that returned after hits and evictions
C14_Witness ==
  /\ frames_count = 1
  /\ pc = "returned"
  /\ HitSteps(result) # {}
  /\ result.total_faults >= 3

C16_FirstAccessFaults ==
  frames_count >= 1 =>
    \A k \in 1 .. Len(steps) :
      steps[k].is_hit =>
        \E j \in 1 .. (k - 1) : steps[j].page = steps[k].page /\ ~steps[j].is_hit

\* a trace with a hit, and a first reference to a page on a full frame set
C16_Witness ==
  /\ frames_count >= 1
  /\ \E k \in 1 .. Len(steps) : steps[k].is_hit
  /\ \E k \in 1 .. Len(steps) :
       /\ WasEviction(k)
       /\ \A j \in 1 .. (k - 1) : steps[j].page # steps[k].page

\* ---- C17 ----
\* C17: the snapshot of step k has as many slots as there are distinct pages
\* among the first k references, up to the capacity: it is shorter than the
\* capacity only while the frame set fills up and has the capacity's length
\* ever after.
C17_SnapshotLength ==
  frames_count >= 1 =>
    \A k \in 1 .. Len(steps) :
      LET distinct == Cardinality({reference[j] : j \in 1 .. k})
      IN /\ Len(steps[k].frames) =
              (IF distinct < frames_count THEN distinct ELSE frames_count)
         /\ \A j \in 1 .. k :
              Len(steps[j].frames) = frames_count =>
                Len(steps[k].frames) = frames_count

\* a frame set that filled up later than step frames_count, because of a hit
\* during fill-up, and was full in an eviction after that
C17_Witness ==
  /\ frames_count >= 2
  /\ \E k \in 1 .. Len(steps) :
       steps[k].is_hit /\ Len(steps[k].frames) < frames_count
  /\ \E k \in 1 .. Len(steps) : WasEviction(k)

\* ---- C18 ----
\* C18: for a non-empty result produced with c >= 1 frames, every row of the
\* step table has one column per frame slot (c columns), each showing the
\* slot's page in that step's snapshot, or "-" while the slot is not filled.
C18_TableColumns ==
  (frames_count >= 1 /\ pc \in {"tabled", "done"} /\ result.steps # <<>>) =>
    /\ Len(table.header_frames) = frames_count
    /\ \A k \in 1 .. Len(table.rows) :
         /\ Len(table.rows[k].frame_strs) = frames_count
         /\ \A j \in 1 .. Len(table.rows[k].frame_strs) :
              table.rows[k].frame_strs[j] =
                (IF j <= Len(result.steps[k].frames)
                 THEN int_str(result.steps[k].frames[j])
                 ELSE <<"-">>)

\* ---- C19 ----
\* C19: simulate_optimal never returns more faults than simulate_fifo or
\* simulate_lru on the same reference string and capacity.
C19_OptimalIsLowest ==
  (alg \in {"FIFO", "LRU"} /\ frames_count >= 1 /\ Returned) =>
    simulate_optimal(reference, frames_count).total_faults <= result.total_faults

\* a FIFO call that faulted more often than simulate_optimal, on a reference
\* string on which simulate_lru did too
C19_Witness ==
  /\ alg = "FIFO"
  /\ frames_count >= 2
  /\ pc = "returned"
  /\ simulate_optimal(reference, frames_count).total_faults < result.total_faults
  /\ simulate_optimal(reference, frames_count).total_faults
       < simulate_lru(reference, frames_count).total_faults

\* ---- C20 ----
\* C20: in simulate_fifo the queue `order` holds exactly the pages in
\* `frames`, each once, after every step; so at an eviction the queue is not
\* empty and frames.index(victim) finds the popped victim.
C20_QueueConsistent ==
  (alg = "FIFO" /\ frames_count >= 1) =>
    /\ exc = "none"
    /\ Len(order) = Len(frames)
    /\ Range(order) = Range(frames)
    /\ NoDuplicates(order)
    /\ FullFault("FIFO") =>
         order # <<>> /\ list_index(frames, fifo_victim(order)) # -1

\* after an eviction, with the queue in another order than the slots
C20_Witness ==
  /\ alg = "FIFO"
  /\ frames_count >= 2
  /\ \E k \in 1 .. Len(steps) : WasEviction(k)
  /\ order # frames
  /\ FullFault("FIFO")

====
